---------------------------- MODULE Spec2Model ----------------------------
(***************************************************************************)
(* ControllableDrone (visualization/controllable_drone_model.py): the      *)
(* quadrotor state, the propeller mixer, the guidance loop, the physics    *)
(* integrator and the boundary enforcer.                                   *)
(*                                                                         *)
(* Numbers.  The program computes in float64.  The model computes in       *)
(* fixed point: the integer n stands for n / Scale, so 1.0 is 10000 and    *)
(* the smallest step is 0.0001.  Products and quotients are rounded to     *)
(* the nearest step.  sin and cos are their Taylor polynomials (the angles *)
(* the program feeds them never leave [-pi/4, pi/4]); sqrt is the integer  *)
(* square root.  Arguments are finite numbers.                             *)
(*                                                                         *)
(* Randomness.  random.uniform, random.random and np.random.normal are     *)
(* nondeterministic choices from small sets of values inside the ranges    *)
(* the program draws from.                                                 *)
(*                                                                         *)
(* Sensor reads.  get_gyroscope_data, get_accelerometer_data and           *)
(* get_imu_data assign no field; the values they return are kept in        *)
(* last_call (draws: the noise drawn, ret: the value returned, without its *)
(* timestamp, temperature and vibration level).  They are steps of         *)
(* SpecSensors.  last_call also keeps, in draws, the wind an apply_control *)
(* decided.                                                                *)
(*                                                                         *)
(* Time.  datetime.now() is the variable clock, in seconds since the       *)
(* construction; it is read at the end of update_physics.  Under Spec the  *)
(* time from one reading to the next is the visualizer's frame interval;   *)
(* under SpecTelemetry it is drawn from Elapsed.                           *)
(*                                                                         *)
(* Relay.  The firmware emulator (renode_real_system/firmware) and the     *)
(* TCP receiver (renode_real_system/host_receiver) exchange one packet at  *)
(* a time: send_sensor_data sends a packet and waits for the answer.  A    *)
(* byte string is a sequence of numbers in 0..255, a text string the       *)
(* sequence of its character codes (all ASCII); decimal readings are kept  *)
(* in hundredths.  The socket hands over a packet whole.  Of the           *)
(* receiver's database only the row saved last is kept, in rx_sensor_data. *)
(* These are the steps of SpecRelay.                                       *)
(*                                                                         *)
(* Left out: the display geometry (update_geometry_based_on_forces),       *)
(* last_update, and of the database all but the session ids it hands out,  *)
(* the sessions whose status is IN_PROGRESS and, of each row of            *)
(* drone_positions, its session and its time.                              *)
(***************************************************************************)
EXTENDS Integers, Sequences, FiniteSets, TLC

\* ------------------------------------------------------------------ bounds

\* The number of calls made on the drone in one behaviour.
MaxCalls == 4

\* ------------------------------------------------------------- fixed point

Scale == 100 * 100

Abs(a) == IF a < 0 THEN -a ELSE a

Sgn(a) == IF a < 0 THEN -1 ELSE IF a > 0 THEN 1 ELSE 0

\* n / d rounded to the nearest integer, d > 0.
RoundDiv(n, d) == Sgn(n) * ((Abs(n) + d \div 2) \div d)

\* a * b for a, b >= 0, split so that no intermediate product overflows.
MulAbs(a, b) ==
    LET aq == a \div Scale
        ar == a % Scale
        bq == b \div Scale
        br == b % Scale
    IN  aq * bq * Scale + aq * br + ar * bq + (2 * ar * br + Scale) \div (2 * Scale)

\* The float product a * b.
Mul(a, b) ==
    IF a = 0 \/ b = 0 THEN 0 ELSE Sgn(a) * Sgn(b) * MulAbs(Abs(a), Abs(b))

\* The float quotient a / b, b > 0.
Div(a, b) == RoundDiv(a * Scale, b)

RECURSIVE SqrtIter(_, _)
SqrtIter(n, x) ==
    LET y == (x + n \div x) \div 2
    IN  IF y >= x THEN x ELSE SqrtIter(n, y)

\* The integer square root of n >= 0.
ISqrt(n) == IF n < 2 THEN n ELSE SqrtIter(n, n \div 2 + 1)

\* math.sqrt of a fixed-point number r >= 0.
Sqrt(r) == ISqrt(r * Scale)

Max2(a, b) == IF a >= b THEN a ELSE b

\* np.linalg.norm of a 3-vector.  A large vector is measured in units of k
\* steps, so that the sum of squares stays inside the integers; the norm is
\* never below the largest component.
Norm(v) ==
    LET m == Max2(Abs(v[1]), Max2(Abs(v[2]), Abs(v[3])))
        k == m \div 26000 + 1
        c(i) == Abs(v[i]) \div k
    IN  Max2(m, k * ISqrt(c(1) * c(1) + c(2) * c(2) + c(3) * c(3)))

\* math.sin on [-pi/4, pi/4]: x - x^3/6 + x^5/120 - x^7/5040.
Sin(x) ==
    LET x2 == Mul(x, x)
        x3 == Mul(x2, x)
        x5 == Mul(x3, x2)
        x7 == Mul(x5, x2)
    IN  x - RoundDiv(x3, 6) + RoundDiv(x5, 120) - RoundDiv(x7, 5040)

\* math.cos on [-pi/4, pi/4]: 1 - x^2/2 + x^4/24 - x^6/720.
Cos(x) ==
    LET x2 == Mul(x, x)
        x4 == Mul(x2, x2)
        x6 == Mul(x4, x2)
    IN  Scale - RoundDiv(x2, 2) + RoundDiv(x4, 24) - RoundDiv(x6, 720)

\* math.atan on [0, 1]: 0.9998660 z - 0.3302995 z^3 + 0.1801410 z^5
\* - 0.0851330 z^7 + 0.0208351 z^9.
Atan01(z) ==
    LET z2 == Mul(z, z)
        z3 == Mul(z2, z)
        z5 == Mul(z3, z2)
        z7 == Mul(z5, z2)
        z9 == Mul(z7, z2)
    IN  Mul(9999, z) - Mul(3303, z3) + Mul(1801, z5) - Mul(851, z7)
            + Mul(208, z9)

\* a / b for 0 <= a <= b, 0 < b, both measured in units of k steps so that
\* the quotient stays inside the integers.
Ratio(a, b) ==
    LET k == b \div 200000 + 1
    IN  IF b \div k = 0 THEN Scale ELSE Div(a \div k, b \div k)

\* pi and pi / 2.
Pi == 31416

HalfPi == 15708

\* math.atan2(y, x).
Atan2(y, x) ==
    LET ay == Abs(y)
        ax == Abs(x)
        a  == IF ay <= ax THEN Atan01(Ratio(ay, ax))
                          ELSE HalfPi - Atan01(Ratio(ax, ay))
    IN  IF x = 0 /\ y = 0 THEN 0
        ELSE IF x >= 0 THEN Sgn(y) * a
        ELSE IF y >= 0 THEN Pi - a
        ELSE a - Pi

\* Entry i of the product of the transpose of the matrix A and the vector v.
TransposeMulVecEntry(A, v, i) ==
    Mul(A[1][i], v[1]) + Mul(A[2][i], v[2]) + Mul(A[3][i], v[3])

\* A.T @ v.
TransposeMulVec(A, v) ==
    <<TransposeMulVecEntry(A, v, 1), TransposeMulVecEntry(A, v, 2),
      TransposeMulVecEntry(A, v, 3)>>

\* np.clip(x, lo, hi).
Clip(x, lo, hi) == IF x < lo THEN lo ELSE IF x > hi THEN hi ELSE x

VAdd(u, v) == <<u[1] + v[1], u[2] + v[2], u[3] + v[3]>>

VSub(u, v) == <<u[1] - v[1], u[2] - v[2], u[3] - v[3]>>

VScale(u, s) == <<Mul(u[1], s), Mul(u[2], s), Mul(u[3], s)>>

Zero3 == <<0, 0, 0>>

\* ------------------------------------------------------- program constants

\* control_input['thrust'] and forces['thrust'] at construction: 9.81.
BaseThrust == 98100

\* forces['gravity']: 9.81.
Gravity == 98100

\* propeller_thrusts at construction and after reset: 2.4525 each.
InitPropThrust == 24525

\* propeller_speeds at construction and after reset: 1000.0 each.
InitPropSpeed == 10000000

\* propeller_max_thrust: 6.0.
propeller_max_thrust == 60000

\* The lower clip of a propeller thrust: 0.1.
MinPropThrust == 1000

\* propeller_efficiency: 0.95, 0.97, 0.96, 0.94.
propeller_efficiency == <<9500, 9700, 9600, 9400>>

\* area_limits.
area_limits ==
    [x_min |-> -80000, x_max |-> 80000,
     y_min |-> -80000, y_max |-> 80000,
     z_min |-> 5000,   z_max |-> 150000]

\* area_limits by axis: the min face and the max face of axis i.
LimMin(i) == <<area_limits.x_min, area_limits.y_min, area_limits.z_min>>[i]

LimMax(i) == <<area_limits.x_max, area_limits.y_max, area_limits.z_max>>[i]

\* max_angle = math.pi / 4 in update_physics: 0.7854.
max_angle == 7854

\* The clip ranges of set_control_input, reused by auto_pilot for thrust.
ThrustMin == 50000

ThrustMax == 200000

TiltMax == 5000

YawMax == 3000

\* border_margin and the repulsion gain of enforce_area_limits: 1.0, 3.0.
border_margin == 10000

RepulsionGain == 30000

\* border_damping and its distance in update_physics: 0.7, 0.5.
border_damping == 7000

DampingMargin == 5000

\* The drag coefficient of update_physics: 0.2.
DragCoeff == 2000

\* The rate gain of apply_control and the attitude gain of auto_pilot: 0.8.
RateGain == 8000

AutoGain == 8000

\* The altitude gain of auto_pilot: 0.5.
AltGain == 5000

\* motion_detected of get_imu_data: a speed or a rate above 0.1.
MotionThreshold == 1000

\* auto_pilot: a waypoint is reached inside 1.0; no direction inside 0.1.
ReachRadius == 10000

DirEpsilon == 1000

\* save_interval: 0.2.
save_interval == 2000

\* ------------------------------------------------------------------ inputs

\* The (thrust_change, pitch, roll, yaw) arguments of set_control_input:
\* trim, far above every range, far below every range, inside every range.
ControlArgs ==
    { <<0, 0, 0, 0>>,
      <<100000, 90000, 90000, 90000>>,
      <<-100000, -90000, -90000, -90000>>,
      <<10000, 2000, -1000, 1000>> }

\* The dt arguments of update_physics: 0.05 (the visualizer's tick), 1.0.
Dts == {500, 10000}

\* random.uniform(-0.3, 0.3) x2, random.uniform(-0.1, 0.1): the gusts drawn.
GustWinds == { <<3000, -3000, 1000>>, <<-3000, 3000, -1000>> }

\* Targets drawn from the whole area: the last has x = 7.
TargetsFromWholeArea ==
    { <<1000, 0, 30000>>,
      <<60000, 0, 30000>>,
      <<70000, 60000, 100000>> }

\* generate_random_target: x, y in [-6, 6], z in [2, 10].  The first is
\* 0.1 from the start position (0, 0, 3): within 1.0 of it, and after a
\* gust has moved the drone a little, nearer than 0.1 or farther.
Targets ==
    { <<1000, 0, 30000>>,
      <<60000, 0, 30000>>,
      <<-60000, 60000, 100000>> }

\* The interval of the visualizer's FuncAnimation, which calls
\* update_physics once a frame: 50 ms.
FrameInterval == 500

\* Wall-clock times from one update_physics to the next, for frames slower
\* than the animation asks for: 0.1, 0.2.
Elapsed == {1000, 2000}

\* np.random.normal(0, sensor_noise['gyro'], 3): the gyroscope noise drawn.
GyroNoises == { <<0, 0, 0>>, <<100, -50, 30>> }

\* np.random.normal(0, sensor_noise['accel'], 3): the accelerometer noise.
AccelNoises == { <<0, 0, 0>>, <<1000, -2000, 500>> }

\* The noises one get_imu_data draws for its gyroscope reading, for its
\* accelerometer reading and for the accelerometer reading of its
\* orientation estimate: none, two different accelerometer noises, twice
\* the same.
ImuNoises ==
    { << <<0, 0, 0>>, <<0, 0, 0>>, <<0, 0, 0>> >>,
      << <<100, -50, 30>>, <<1000, -2000, 500>>, <<0, 0, 0>> >>,
      << <<100, -50, 30>>, <<1000, -2000, 500>>, <<1000, -2000, 500>> >> }

\* np.random.normal(0, 0.001, 3) and np.random.normal(0, 0.01, 3): the
\* (gyro, accel) biases one calibration draws.
BiasDraws ==
    { [bias_gyro |-> <<0, 0, 0>>,     bias_accel |-> <<0, 0, 0>>],
      [bias_gyro |-> <<10, -10, 5>>,  bias_accel |-> <<100, -50, 20>>] }

\* device_id of the firmware: "STM32_REAL_001".
DeviceId == <<83, 84, 77, 51, 50, 95, 82, 69, 65, 76, 95, 48, 48, 49>>

\* datetime.now().isoformat(): "2026-11-03T18:14:54.123456", and
\* "2026-11-03T18:14:54", the form of a time with no microseconds.
Timestamps ==
    { <<50, 48, 50, 54, 45, 49, 49, 45, 48, 51, 84, 49, 56, 58, 49, 52, 58,
        53, 52, 46, 49, 50, 51, 52, 53, 54>>,
      <<50, 48, 50, 54, 45, 49, 49, 45, 48, 51, 84, 49, 56, 58, 49, 52, 58,
        53, 52>> }

\* round(random.uniform(40.0, 80.0), 2), in hundredths: 64.1.
Humidities == {6410}

\* round(random.uniform(980.0, 1020.0), 2), in hundredths: 980.0, 1013.25,
\* 1020.0.
Pressures == {98000, 101325, 102000}

\* random.randint(10, 50).
CpuUsages == {10, 50}

\* The records read_sensor_data returns.  The temperature is 25.5 and the
\* voltage 3.3 in each.
SensorRecords ==
    { [ device_id   |-> DeviceId,
        timestamp   |-> ts,
        temperature |-> 2550,
        humidity    |-> h,
        pressure    |-> p,
        voltage     |-> 330,
        cpu_usage   |-> c ] :
        ts \in Timestamps, h \in Humidities, p \in Pressures, c \in CpuUsages }

\* ------------------------------------------------------------------- state

VARIABLES
    position,             \* [x, y, z]
    orientation,          \* [roll, pitch, yaw]
    angular_velocity,
    velocity,
    linear_acceleration,
    control_input,        \* [thrust, pitch, roll, yaw]
    propeller_thrusts,
    propeller_speeds,
    forces,               \* [thrust, drag, gravity, wind]
    control_mode,         \* "MANUAL" or "AUTO"
    target_position,
    target_counter,
    flight_time,
    distance_traveled,
    last_position,
    max_altitude,
    max_speed,
    sensor_noise,         \* [gyro, accel, bias_gyro, bias_accel]
    sensor_calibration,   \* [gyro_scale, accel_scale]
    current_session_id,   \* 0 is None
    db_sessions,          \* rows of flight_sessions: the last id handed out
    db_in_progress,       \* ids of the rows whose status is IN_PROGRESS
    clock,                \* datetime.now() at its latest reading
    last_save_time,
    db_positions,         \* rows of drone_positions: [session_id, written_at]
    fw_sensor_data,       \* the record the firmware read last, or None
    channel,              \* the bytes sent to the receiver and not yet read
    rx_sensor_data,       \* what the receiver parsed last, or None
    response,             \* the receiver's answer not yet read, or None
    pc,                   \* where update_physics stands
    last_call,            \* the last call made: [op, args, again]; again
                          \* says that the call before it was the same op
    calls                 \* calls made so far

drone_vars ==
    <<position, orientation, angular_velocity, velocity, linear_acceleration,
      control_input, propeller_thrusts, propeller_speeds, forces>>

guidance_vars == <<control_mode, target_position, target_counter>>

stat_vars ==
    <<flight_time, distance_traveled, last_position, max_altitude, max_speed>>

sensor_vars == <<sensor_noise, sensor_calibration>>

session_vars == <<current_session_id, db_sessions, db_in_progress>>

telemetry_vars == <<clock, last_save_time, db_positions>>

relay_vars == <<fw_sensor_data, channel, rx_sensor_data, response>>

vars ==
    <<drone_vars, guidance_vars, stat_vars, sensor_vars, session_vars,
      telemetry_vars, relay_vars, pc, last_call, calls>>

\* ------------------------------------------------------------------- mixer

\* RawThrusts with the roll correction added to propellers 0 and 1 and
\* taken from propellers 2 and 3.
RawThrustsRollOnFirstPair(total_thrust, roll, pitch, yaw) ==
    LET base_thrust      == RoundDiv(total_thrust, 4)
        roll_correction  == Mul(roll, 5000)
        pitch_correction == Mul(pitch, 5000)
        yaw_correction   == Mul(yaw, 3000)
    IN  << base_thrust + roll_correction + pitch_correction - yaw_correction,
           base_thrust + roll_correction - pitch_correction - yaw_correction,
           base_thrust - roll_correction + pitch_correction + yaw_correction,
           base_thrust - roll_correction - pitch_correction + yaw_correction >>

\* calculate_propeller_thrusts before efficiency and clipping.
RawThrusts(total_thrust, roll, pitch, yaw) ==
    LET base_thrust      == RoundDiv(total_thrust, 4)
        roll_correction  == Mul(roll, 5000)
        pitch_correction == Mul(pitch, 5000)
        yaw_correction   == Mul(yaw, 3000)
    IN  << base_thrust - roll_correction + pitch_correction - yaw_correction,
           base_thrust + roll_correction - pitch_correction - yaw_correction,
           base_thrust + roll_correction + pitch_correction + yaw_correction,
           base_thrust - roll_correction - pitch_correction + yaw_correction >>

\* ClipThrust with the lower bound forgotten.
ClipThrustUpperOnly(t) == IF t > propeller_max_thrust THEN propeller_max_thrust ELSE t

\* The clip of one propeller's thrust.
ClipThrust(t) == Clip(t, MinPropThrust, propeller_max_thrust)

calculate_propeller_thrusts(total_thrust, roll, pitch, yaw) ==
    LET raw == RawThrusts(total_thrust, roll, pitch, yaw)
    IN  [i \in 1..4 |-> ClipThrust(Mul(raw[i], propeller_efficiency[i]))]

\* update_propeller_speeds: 500 + 1500 * sqrt(thrust / max_thrust).
SpeedOf(thrust) ==
    LET thrust_ratio == Div(thrust, propeller_max_thrust)
    IN  500 * Scale + Mul(1500 * Scale, Sqrt(thrust_ratio))

update_propeller_speeds(thrusts) == [i \in 1..4 |-> SpeedOf(thrusts[i])]

\* ---------------------------------------------------------------- guidance

\* auto_pilot in AUTO mode, from position pos with target tgt and counter
\* cnt; draw is the target generate_random_target returns if it is called.
\* The result holds the command returned and the target and counter left.
\* The waypoint test of auto_pilot: the target is within 1.0 of the drone.
Reached(pos, tgt) == Norm(VSub(tgt, pos)) < ReachRadius

\* WaypointCount counting every AUTO tick.
WaypointCountEveryTick(reached, cnt) == cnt + 1

\* target_counter after the waypoint test.
WaypointCount(reached, cnt) == IF reached THEN cnt + 1 ELSE cnt

\* Direction dividing at the distance 0.1 itself.
DirectionFromEpsilon(to_target, distance_to_target) ==
    IF distance_to_target >= DirEpsilon
    THEN << Div(to_target[1], distance_to_target),
            Div(to_target[2], distance_to_target),
            Div(to_target[3], distance_to_target) >>
    ELSE Zero3

\* Direction with the normalisation forgotten.
DirectionUnnormalised(to_target, distance_to_target) ==
    IF distance_to_target > DirEpsilon THEN to_target ELSE Zero3

\* direction of auto_pilot: to_target normalised, or zero within 0.1.
Direction(to_target, distance_to_target) ==
    IF distance_to_target > DirEpsilon
    THEN << Div(to_target[1], distance_to_target),
            Div(to_target[2], distance_to_target),
            Div(to_target[3], distance_to_target) >>
    ELSE Zero3

\* auto_pilot taking the height error from the target before the waypoint
\* test.
auto_pilot_stale_height(pos, tgt, cnt, draw) ==
    LET reached   == Reached(pos, tgt)
        target    == IF reached THEN draw ELSE tgt
        to_target == VSub(target, pos)
        direction == Direction(to_target, Norm(to_target))
        height_error == tgt[3] - pos[3]
    IN  [ thrust  |-> Clip(BaseThrust + Mul(height_error, AltGain),
                           ThrustMin, ThrustMax),
          roll    |-> Mul(direction[2], AutoGain),
          pitch   |-> -Mul(direction[1], AutoGain),
          yaw     |-> 0,
          target  |-> target,
          counter |-> WaypointCount(reached, cnt) ]

auto_pilot(pos, tgt, cnt, draw) ==
    LET reached   == Reached(pos, tgt)
        target    == IF reached THEN draw ELSE tgt
        to_target == VSub(target, pos)
        direction == Direction(to_target, Norm(to_target))
        height_error == target[3] - pos[3]
    IN  [ thrust  |-> Clip(BaseThrust + Mul(height_error, AltGain),
                           ThrustMin, ThrustMax),
          roll    |-> Mul(direction[2], AutoGain),
          pitch   |-> -Mul(direction[1], AutoGain),
          yaw     |-> 0,
          target  |-> target,
          counter |-> WaypointCount(reached, cnt) ]

\* Command handing the mixer the stored pitch as roll and the stored roll as
\* pitch in MANUAL mode.
CommandPitchAsRoll(draw) ==
    IF control_mode = "AUTO"
    THEN auto_pilot(position, target_position, target_counter, draw)
    ELSE [ thrust  |-> control_input.thrust,
           roll    |-> control_input.pitch,
           pitch   |-> control_input.roll,
           yaw     |-> control_input.yaw,
           target  |-> target_position,
           counter |-> target_counter ]

\* The command apply_control resolves for the current mode.
Command(draw) ==
    IF control_mode = "AUTO"
    THEN auto_pilot(position, target_position, target_counter, draw)
    ELSE [ thrust  |-> control_input.thrust,
           roll    |-> control_input.roll,
           pitch   |-> control_input.pitch,
           yaw     |-> control_input.yaw,
           target  |-> target_position,
           counter |-> target_counter ]

\* ----------------------------------------------------------------- physics

\* IntegrateOrientation with the clip forgotten.
IntegrateOrientationNoClip(o, w, dt) == [i \in 1..3 |-> o[i] + Mul(w[i], dt)]

\* The orientation update of update_physics: integrate, then clip.
IntegrateOrientation(o, w, dt) ==
    [i \in 1..3 |-> Clip(o[i] + Mul(w[i], dt), -max_angle, max_angle)]

\* thrust_vector of update_physics.
ThrustVector(roll, pitch, thrust) ==
    << Mul(Mul(Sin(pitch), Cos(roll)), thrust),
       -Mul(Mul(Sin(roll), Cos(pitch)), thrust),
       Mul(Mul(Cos(roll), Cos(pitch)), thrust) >>

\* TotalForce with the weight forgotten.
TotalForceNoGravity(o, v, f) ==
    LET thrust_vector == ThrustVector(o[1], o[2], f.thrust)
        drag_force    == <<-Mul(v[1], DragCoeff), -Mul(v[2], DragCoeff),
                           -Mul(v[3], DragCoeff)>>
    IN  VAdd(VAdd(thrust_vector, drag_force), f.wind)

\* total_force of update_physics, from the orientation o just integrated.
TotalForce(o, v, f) ==
    LET thrust_vector == ThrustVector(o[1], o[2], f.thrust)
        gravity_force == <<0, 0, -f.gravity>>
        drag_force    == <<-Mul(v[1], DragCoeff), -Mul(v[2], DragCoeff),
                           -Mul(v[3], DragCoeff)>>
    IN  VAdd(VAdd(VAdd(thrust_vector, gravity_force), drag_force), f.wind)

\* ClampAxis with the min face forgotten.
ClampAxisNoLower(p, i) == IF p > LimMax(i) THEN LimMax(i) ELSE p

\* The hard clamp of enforce_area_limits on axis i.
ClampAxis(p, i) == Clip(p, LimMin(i), LimMax(i))

\* The velocity enforce_area_limits leaves on axis i, p being the clamped
\* position on that axis and v the velocity before.
RepelAxis(p, v, i) ==
    IF p > LimMax(i) - border_margin
    THEN v - Mul(LimMax(i) - p - border_margin, RepulsionGain)
    ELSE IF p < LimMin(i) + border_margin
    THEN v + Mul(p - LimMin(i) - border_margin, RepulsionGain)
    ELSE v

\* The border damping of update_physics on axis i.
DampAxis(p, v, i) ==
    IF p >= LimMax(i) - DampingMargin \/ p <= LimMin(i) + DampingMargin
    THEN Mul(v, border_damping)
    ELSE v

\* ----------------------------------------------------------------- sensors

\* A sensor reading: (ideal + bias) * scale + noise, elementwise.
Reading(ideal, bias, scale, noise) ==
    << Mul(ideal[1] + bias[1], scale[1]) + noise[1],
       Mul(ideal[2] + bias[2], scale[2]) + noise[2],
       Mul(ideal[3] + bias[3], scale[3]) + noise[3] >>

\* get_gyroscope_data with the scale factors forgotten.
get_gyroscope_data_unscaled(noise) ==
    VAdd(VAdd(angular_velocity, sensor_noise.bias_gyro), noise)

\* get_gyroscope_data: the (roll_rate, pitch_rate, yaw_rate) returned, noise
\* being the noise drawn.
get_gyroscope_data(noise) ==
    Reading(angular_velocity, sensor_noise.bias_gyro,
            sensor_calibration.gyro_scale, noise)

\* Rz @ Ry @ Rx, the product written out, of
\*   Rx = [1 0 0; 0 cr -sr; 0 sr cr],  Ry = [cp 0 sp; 0 1 0; -sp 0 cp],
\*   Rz = [cy -sy 0; sy cy 0; 0 0 1].
RzRyRx(cr, sr, cp, sp, cy, sy) ==
    << << Mul(cy, cp),
          Mul(Mul(cy, sp), sr) - Mul(sy, cr),
          Mul(Mul(cy, sp), cr) + Mul(sy, sr) >>,
       << Mul(sy, cp),
          Mul(Mul(sy, sp), sr) + Mul(cy, cr),
          Mul(Mul(sy, sp), cr) - Mul(cy, sr) >>,
       << -sp, Mul(cp, sr), Mul(cp, cr) >> >>

\* _get_rotation_matrix.
get_rotation_matrix(roll, pitch, yaw) ==
    RzRyRx(Cos(roll), Sin(roll), Cos(pitch), Sin(pitch), Cos(yaw), Sin(yaw))

\* get_accelerometer_data: the (accel_x, accel_y, accel_z) returned, noise
\* being the noise drawn.
get_accelerometer_data(noise) ==
    LET gravity_vector  == <<0, 0, -Gravity>>
        rotation_matrix == get_rotation_matrix(orientation[1], orientation[2],
                                               orientation[3])
        gravity_body    == TransposeMulVec(rotation_matrix, gravity_vector)
        ideal_accel     == VAdd(linear_acceleration, gravity_body)
    IN  Reading(ideal_accel, sensor_noise.bias_accel,
                sensor_calibration.accel_scale, noise)

\* confidence of _estimate_orientation_from_imu: 0.8 if the reading is
\* between 8 and 12 long, else 0.3.
Confidence(n) == IF n > 8 * Scale /\ n < 12 * Scale THEN 8000 ELSE 3000

\* EstimateFrom estimating the yaw from the reading as well.
EstimateFromYawGuessed(accel) ==
    [ roll_estimated  |-> Atan2(accel[2], accel[3]),
      pitch_estimated |-> Atan2(-accel[1], Norm(<<0, accel[2], accel[3]>>)),
      yaw_estimated   |-> Atan2(accel[2], accel[1]),
      confidence      |-> Confidence(Norm(accel)) ]

\* The estimate _estimate_orientation_from_imu makes of the reading accel.
EstimateFrom(accel) ==
    [ roll_estimated  |-> Atan2(accel[2], accel[3]),
      pitch_estimated |-> Atan2(-accel[1], Norm(<<0, accel[2], accel[3]>>)),
      yaw_estimated   |-> orientation[3],
      confidence      |-> Confidence(Norm(accel)) ]

\* _estimate_orientation_from_imu, which takes an accelerometer reading of
\* its own, noise being the noise that reading draws.
estimate_orientation_from_imu(noise) ==
    EstimateFrom(get_accelerometer_data(noise))

\* get_imu_data, the three noises being those its gyroscope reading, its
\* accelerometer reading and its orientation estimate draw.
get_imu_data(gyro_noise, accel_noise, estimate_noise) ==
    [ gyroscope            |-> get_gyroscope_data(gyro_noise),
      accelerometer        |-> get_accelerometer_data(accel_noise),
      orientation_estimate |-> estimate_orientation_from_imu(estimate_noise),
      motion_detected      |-> \/ Norm(velocity) > MotionThreshold
                               \/ Norm(angular_velocity) > MotionThreshold ]

\* ------------------------------------------------------------------- relay

\* Python's None.
None == [none |-> TRUE]

\* a ^ b on the n lowest bits.
RECURSIVE XorBits(_, _, _)
XorBits(a, b, n) ==
    IF n = 0 THEN 0
    ELSE (((a % 2) + (b % 2)) % 2) + 2 * XorBits(a \div 2, b \div 2, n - 1)

\* s.ljust(n): s padded with spaces on the right to the length n.
Ljust(s, n) ==
    IF Len(s) >= n THEN s ELSE s \o [i \in 1..(n - Len(s)) |-> 32]

\* s.encode('utf-8') of an ASCII string: one byte a character.
Encode(s) == [i \in 1..Len(s) |-> s[i] % 256]

\* n.to_bytes(2, 'little'), 0 <= n < 65536.
ToBytes2(n) == <<n % 256, n \div 256>>

\* int(x * 100) of the float x of h hundredths.  The float product of 64.1
\* and 100 is 6409.999..., which int truncates; the products of the other
\* readings drawn here are whole.
IntOfTimes100(h) == IF h = 6410 THEN h - 1 ELSE h

\* int(x * 1000) of the float x of h hundredths (3.3 * 1000 is 3300.0).
IntOfTimes1000(h) == h * 10

\* int(x) of the float x of h hundredths, h >= 0.
IntOf(h) == h \div 100

\* The inner loop of the firmware's calculate_crc8: n shifts of crc.
RECURSIVE firmware_crc8_shifts(_, _)
firmware_crc8_shifts(crc, n) ==
    IF n = 0 THEN crc
    ELSE firmware_crc8_shifts(
             IF (crc \div 128) % 2 = 1
             THEN XorBits(crc * 2, 7, 9) % 256
             ELSE (crc * 2) % 256,
             n - 1)

\* The outer loop of the firmware's calculate_crc8, from byte i on, crc
\* being a byte.
RECURSIVE firmware_crc8_from(_, _, _)
firmware_crc8_from(data, i, crc) ==
    IF i > Len(data) \/ crc \notin 0..255 THEN crc
    ELSE firmware_crc8_from(data, i + 1,
                            firmware_crc8_shifts(XorBits(crc, data[i], 8), 8))

\* STM32FirmwareEmulator.calculate_crc8.
firmware_calculate_crc8(data) == firmware_crc8_from(data, 1, 0)

\* packet + checksum.to_bytes(1, 'little').
WithChecksum(packet) == Append(packet, firmware_calculate_crc8(packet) % 256)

\* create_binary_packet.
create_binary_packet(data) ==
    WithChecksum(
        <<170, 187, 204, 221>> \o <<2>>
            \o SubSeq(Encode(Ljust(data.device_id, 20)), 1, 20)
            \o SubSeq(Encode(Ljust(data.timestamp, 30)), 1, 30)
            \o ToBytes2(IntOfTimes100(data.temperature))
            \o ToBytes2(IntOfTimes100(data.humidity))
            \o ToBytes2(IntOf(data.pressure))
            \o ToBytes2(IntOfTimes1000(data.voltage))
            \o <<data.cpu_usage % 256>>)

\* The inner loop of the receiver's calculate_crc8: n shifts of crc.
RECURSIVE receiver_crc8_shifts(_, _)
receiver_crc8_shifts(crc, n) ==
    IF n = 0 THEN crc
    ELSE receiver_crc8_shifts(
             IF (crc \div 128) % 2 = 1
             THEN XorBits(crc * 2, 7, 9) % 256
             ELSE (crc * 2) % 256,
             n - 1)

\* The outer loop of the receiver's calculate_crc8, from byte i on, crc
\* being a byte.
RECURSIVE receiver_crc8_from(_, _, _)
receiver_crc8_from(data, i, crc) ==
    IF i > Len(data) \/ crc \notin 0..255 THEN crc
    ELSE receiver_crc8_from(data, i + 1,
                            receiver_crc8_shifts(XorBits(crc, data[i], 8), 8))

\* RenodeTCPReceiver.calculate_crc8.
receiver_calculate_crc8(data) == receiver_crc8_from(data, 1, 0)

\* bytes.decode('utf-8', errors='ignore') of bytes below 128; the others,
\* which no ASCII string encodes to, are dropped.
Decode(b) == SelectSeq(b, LAMBDA x : x < 128)

\* str.strip() at the left: from the first character that is no blank.
RECURSIVE StripLeft(_)
StripLeft(s) ==
    IF s # <<>> /\ s[1] \in {9, 10, 11, 12, 13, 32} THEN StripLeft(Tail(s))
    ELSE s

\* str.strip() at the right.
RECURSIVE StripRight(_)
StripRight(s) ==
    IF s # <<>> /\ s[Len(s)] \in {9, 10, 11, 12, 13, 32}
    THEN StripRight(SubSeq(s, 1, Len(s) - 1))
    ELSE s

\* str.strip().
Strip(s) == StripRight(StripLeft(s))

\* struct.unpack('<H', b)[0] of two bytes.
UnpackH(b) == b[1] + 256 * b[2]

\* The dictionary parse_binary_packet returns for a packet it accepts.  The
\* temperature and the humidity are in hundredths, the voltage in
\* thousandths.
Parsed(packet) ==
    [ device_id   |-> Strip(Decode(SubSeq(packet, 6, 25))),
      timestamp   |-> Strip(Decode(SubSeq(packet, 26, 55))),
      temperature |-> UnpackH(SubSeq(packet, 56, 57)),
      humidity    |-> UnpackH(SubSeq(packet, 58, 59)),
      pressure    |-> UnpackH(SubSeq(packet, 60, 61)),
      voltage     |-> UnpackH(SubSeq(packet, 62, 63)),
      cpu_usage   |-> packet[64],
      packet_size |-> Len(packet) ]

\* parse_binary_packet taking the checksum of the whole packet, its last
\* byte included.
parse_binary_packet_crc_of_all(packet) ==
    IF Len(packet) < 62 THEN None
    ELSE IF SubSeq(packet, 1, 4) # <<170, 187, 204, 221>> THEN None
    ELSE IF Len(packet) < 65 THEN None
    ELSE IF packet[65] # receiver_calculate_crc8(packet)
    THEN None
    ELSE Parsed(packet)

\* parse_binary_packet.  A packet of 62 to 64 bytes passes the length test
\* and raises on a missing byte, which the except clause turns into None.
parse_binary_packet(packet) ==
    IF Len(packet) < 62 THEN None
    ELSE IF SubSeq(packet, 1, 4) # <<170, 187, 204, 221>> THEN None
    ELSE IF Len(packet) < 65 THEN None
    ELSE IF packet[65] # receiver_calculate_crc8(SubSeq(packet, 1, 64))
    THEN None
    ELSE Parsed(packet)

\* -------------------------------------------------------------------- Init

\* __init__.  The target is the first draw of generate_random_target.
Init ==
    /\ position = <<0, 0, 30000>>
    /\ orientation = Zero3
    /\ angular_velocity = Zero3
    /\ velocity = Zero3
    /\ linear_acceleration = Zero3
    /\ control_input = [thrust |-> BaseThrust, pitch |-> 0, roll |-> 0, yaw |-> 0]
    /\ propeller_thrusts = [i \in 1..4 |-> InitPropThrust]
    /\ propeller_speeds = [i \in 1..4 |-> InitPropSpeed]
    /\ forces = [thrust |-> BaseThrust, drag |-> 0, gravity |-> Gravity,
                 wind |-> Zero3]
    /\ control_mode = "MANUAL"
    /\ target_position \in Targets
    /\ target_counter = 0
    /\ flight_time = 0
    /\ distance_traveled = 0
    /\ last_position = <<0, 0, 30000>>
    /\ max_altitude = 0
    /\ max_speed = 0
    /\ sensor_noise = [gyro |-> 100, accel |-> 1000,
                       bias_gyro |-> <<20, 10, -30>>,
                       bias_accel |-> <<500, -300, 200>>]
    /\ sensor_calibration = [gyro_scale |-> <<10200, 9800, 10100>>,
                             accel_scale |-> <<9900, 10100, 10300>>]
    /\ current_session_id = 0
    /\ db_sessions = 0
    /\ db_in_progress = {}
    /\ clock = 0
    /\ last_save_time = 0
    /\ db_positions = <<>>
    /\ fw_sensor_data = None
    /\ channel = <<>>
    /\ rx_sensor_data = None
    /\ response = None
    /\ pc = "idle"
    /\ last_call = [op |-> "__init__", args |-> <<>>, again |-> FALSE]
    /\ calls = 0

\* A call can start: no update_physics is under way.
CanCall == pc = "idle" /\ calls < MaxCalls

Called(op, args) ==
    /\ last_call' = [op |-> op, args |-> args, again |-> (last_call.op = op)]
    /\ calls' = calls + 1

\* ----------------------------------------------------------------- actions

\* ClippedInput with yaw clipped to the tilt range.
ClippedInputYawAsTilt(a) ==
    [ thrust |-> Clip(BaseThrust + 2 * a[1], ThrustMin, ThrustMax),
      pitch  |-> Clip(a[2], -TiltMax, TiltMax),
      roll   |-> Clip(a[3], -TiltMax, TiltMax),
      yaw    |-> Clip(a[4], -TiltMax, TiltMax) ]

\* The control_input set_control_input stores for the arguments
\* a = (thrust_change, pitch, roll, yaw).
ClippedInput(a) ==
    [ thrust |-> Clip(BaseThrust + 2 * a[1], ThrustMin, ThrustMax),
      pitch  |-> Clip(a[2], -TiltMax, TiltMax),
      roll   |-> Clip(a[3], -TiltMax, TiltMax),
      yaw    |-> Clip(a[4], -YawMax, YawMax) ]

\* set_control_input(thrust_change, pitch, roll, yaw), a = the arguments.
SetControlInput(a) ==
    /\ CanCall
    /\ LET c == ClippedInput(a)
           thrusts == calculate_propeller_thrusts(c.thrust, c.roll, c.pitch, c.yaw)
       IN  /\ control_input' = c
           /\ propeller_thrusts' = thrusts
           /\ propeller_speeds' = update_propeller_speeds(thrusts)
    /\ Called("set_control_input", a)
    /\ UNCHANGED <<position, orientation, angular_velocity, velocity,
                   linear_acceleration, forces, guidance_vars, stat_vars,
                   sensor_vars, session_vars, telemetry_vars, relay_vars, pc>>

\* The record of an apply_control call: the command handed to the mixer
\* and, in draws, the wind its gust draw decided.
CalledApply(c, wind) ==
    /\ last_call' = [op |-> "apply_control",
                     args |-> <<c.thrust, c.roll, c.pitch, c.yaw>>,
                     again |-> (last_call.op = "apply_control"),
                     draws |-> <<wind>>]
    /\ calls' = calls + 1

\* ApplyControl leaving the wind of the call before in place when it draws
\* no gust.
ApplyControlKeepingGust(wind, draw) ==
    /\ CanCall
    /\ LET c == Command(draw)
           thrusts == calculate_propeller_thrusts(c.thrust, c.roll, c.pitch, c.yaw)
       IN  /\ angular_velocity' = <<Mul(c.roll, RateGain), Mul(c.pitch, RateGain),
                                    Mul(c.yaw, RateGain)>>
           /\ forces' = [forces EXCEPT !.thrust = c.thrust,
                                       !.wind = IF wind = Zero3 THEN forces.wind
                                                ELSE wind]
           /\ propeller_thrusts' = thrusts
           /\ propeller_speeds' = update_propeller_speeds(thrusts)
           /\ target_position' = c.target
           /\ target_counter' = c.counter
           /\ CalledApply(c, wind)
    /\ UNCHANGED <<position, orientation, velocity, linear_acceleration,
                   control_input, control_mode, stat_vars, sensor_vars,
                   session_vars, telemetry_vars, relay_vars, pc>>

\* apply_control.  wind is what the gust draw decides: the gust drawn, or
\* zero if none is; draw is the target generate_random_target would return.
ApplyControl(wind, draw) ==
    /\ CanCall
    /\ LET c == Command(draw)
           thrusts == calculate_propeller_thrusts(c.thrust, c.roll, c.pitch, c.yaw)
       IN  /\ angular_velocity' = <<Mul(c.roll, RateGain), Mul(c.pitch, RateGain),
                                    Mul(c.yaw, RateGain)>>
           /\ forces' = [forces EXCEPT !.thrust = c.thrust, !.wind = wind]
           /\ propeller_thrusts' = thrusts
           /\ propeller_speeds' = update_propeller_speeds(thrusts)
           /\ target_position' = c.target
           /\ target_counter' = c.counter
           /\ CalledApply(c, wind)
    /\ UNCHANGED <<position, orientation, velocity, linear_acceleration,
                   control_input, control_mode, stat_vars, sensor_vars,
                   session_vars, telemetry_vars, relay_vars, pc>>

\* update_physics(dt), first part: orientation, forces, velocity, position
\* and the statistics.
Integrate(dt) ==
    /\ CanCall
    /\ LET o == IntegrateOrientation(orientation, angular_velocity, dt)
           acceleration == TotalForce(o, velocity, forces)
           v == VAdd(velocity, VScale(acceleration, dt))
           p == VAdd(position, VScale(v, dt))
       IN  /\ orientation' = o
           /\ linear_acceleration' = acceleration
           /\ velocity' = v
           /\ position' = p
           /\ flight_time' = flight_time + dt
           /\ distance_traveled' = distance_traveled + Norm(VSub(p, last_position))
           /\ last_position' = p
           /\ max_altitude' = Max2(max_altitude, p[3])
           /\ max_speed' = Max2(max_speed, Norm(v))
    /\ pc' = "integrated"
    /\ Called("update_physics", <<dt>>)
    /\ UNCHANGED <<angular_velocity, control_input, propeller_thrusts,
                   propeller_speeds, forces, guidance_vars, sensor_vars,
                   session_vars, telemetry_vars, relay_vars>>

\* enforce_area_limits testing the margin on the position before the clamp.
enforce_area_limits_repel_first ==
    /\ pc = "integrated"
    /\ position' = [i \in 1..3 |-> ClampAxis(position[i], i)]
    /\ velocity' = [i \in 1..3 |-> RepelAxis(position[i], velocity[i], i)]
    /\ pc' = "enforced"
    /\ UNCHANGED <<orientation, angular_velocity, linear_acceleration,
                   control_input, propeller_thrusts, propeller_speeds, forces,
                   guidance_vars, stat_vars, sensor_vars, session_vars,
                   telemetry_vars, relay_vars, last_call, calls>>

\* update_physics, second part: the call of enforce_area_limits.
enforce_area_limits ==
    /\ pc = "integrated"
    /\ LET p == [i \in 1..3 |-> ClampAxis(position[i], i)]
       IN  /\ position' = p
           /\ velocity' = [i \in 1..3 |-> RepelAxis(p[i], velocity[i], i)]
    /\ pc' = "enforced"
    /\ UNCHANGED <<orientation, angular_velocity, linear_acceleration,
                   control_input, propeller_thrusts, propeller_speeds, forces,
                   guidance_vars, stat_vars, sensor_vars, session_vars,
                   telemetry_vars, relay_vars, last_call, calls>>

\* save_current_state never moving last_save_time.
save_current_state_stale(now) ==
    IF current_session_id # 0 /\ now - last_save_time >= save_interval
    THEN [ db_positions   |-> Append(db_positions,
                                [session_id |-> current_session_id,
                                 written_at |-> now]),
           last_save_time |-> last_save_time ]
    ELSE [ db_positions |-> db_positions, last_save_time |-> last_save_time ]

\* save_current_state, now being the time datetime.now() returns: the rows
\* of drone_positions and the last_save_time it leaves.
save_current_state(now) ==
    IF current_session_id # 0 /\ now - last_save_time >= save_interval
    THEN [ db_positions   |-> Append(db_positions,
                                [session_id |-> current_session_id,
                                 written_at |-> now]),
           last_save_time |-> now ]
    ELSE [ db_positions |-> db_positions, last_save_time |-> last_save_time ]

\* update_physics, last part: the border damping and the call of
\* save_current_state, el after the clock was last read.
BorderDamping(el) ==
    /\ pc = "enforced"
    /\ velocity' = [i \in 1..3 |-> DampAxis(position[i], velocity[i], i)]
    /\ LET saved == save_current_state(clock + el)
       IN  /\ clock' = clock + el
           /\ db_positions' = saved.db_positions
           /\ last_save_time' = saved.last_save_time
    /\ pc' = "idle"
    /\ UNCHANGED <<position, orientation, angular_velocity,
                   linear_acceleration, control_input, propeller_thrusts,
                   propeller_speeds, forces, guidance_vars, stat_vars,
                   sensor_vars, session_vars, relay_vars, last_call, calls>>

\* ToggleControlMode drawing a target on the way out of AUTO as well.
ToggleAlwaysDraw(draw) ==
    /\ CanCall
    /\ control_mode' = (IF control_mode = "MANUAL" THEN "AUTO" ELSE "MANUAL")
    /\ target_position' = draw
    /\ Called("toggle_control_mode", <<>>)
    /\ UNCHANGED <<drone_vars, target_counter, stat_vars, sensor_vars,
                   session_vars, telemetry_vars, relay_vars, pc>>

\* toggle_control_mode.
ToggleControlMode(draw) ==
    /\ CanCall
    /\ IF control_mode = "MANUAL"
       THEN /\ control_mode' = "AUTO"
            /\ target_position' = draw
       ELSE /\ control_mode' = "MANUAL"
            /\ target_position' = target_position
    /\ Called("toggle_control_mode", <<>>)
    /\ UNCHANGED <<drone_vars, target_counter, stat_vars, sensor_vars,
                   session_vars, telemetry_vars, relay_vars, pc>>

\* Calibrated also halving the gyroscope noise.
CalibratedHalvingNoise(b) ==
    [sensor_noise EXCEPT !.bias_gyro = b.bias_gyro, !.bias_accel = b.bias_accel,
                         !.gyro = sensor_noise.gyro \div 2]

\* The sensor_noise calibrate_sensors leaves, b being the biases drawn.
Calibrated(b) ==
    [sensor_noise EXCEPT !.bias_gyro = b.bias_gyro, !.bias_accel = b.bias_accel]

\* CalibrateSensors handing the control back to the pilot.
CalibrateSensorsToManual(b) ==
    /\ CanCall
    /\ sensor_noise' = Calibrated(b)
    /\ control_mode' = "MANUAL"
    /\ Called("calibrate_sensors", <<>>)
    /\ UNCHANGED <<drone_vars, target_position, target_counter, stat_vars,
                   sensor_calibration, session_vars, telemetry_vars,
                   relay_vars, pc>>

\* calibrate_sensors.
CalibrateSensors(b) ==
    /\ CanCall
    /\ sensor_noise' = Calibrated(b)
    /\ Called("calibrate_sensors", <<>>)
    /\ UNCHANGED <<drone_vars, guidance_vars, stat_vars, sensor_calibration,
                   session_vars, telemetry_vars, relay_vars, pc>>

\* start_data_logging.  start_new_flight_session inserts a row with the
\* status IN_PROGRESS and returns its id.
StartDataLogging ==
    /\ CanCall
    /\ IF current_session_id = 0
       THEN /\ db_sessions' = db_sessions + 1
            /\ db_in_progress' = db_in_progress \cup {db_sessions + 1}
            /\ current_session_id' = db_sessions + 1
       ELSE UNCHANGED session_vars
    /\ Called("start_data_logging", <<>>)
    /\ UNCHANGED <<drone_vars, guidance_vars, stat_vars, sensor_vars,
                   telemetry_vars, relay_vars, pc>>

\* stop_data_logging.  end_flight_session sets the status of the session's
\* row to COMPLETED.
StopDataLogging ==
    /\ CanCall
    /\ IF current_session_id # 0
       THEN /\ db_in_progress' = db_in_progress \ {current_session_id}
            /\ current_session_id' = 0
       ELSE UNCHANGED <<current_session_id, db_in_progress>>
    /\ Called("stop_data_logging", <<>>)
    /\ UNCHANGED <<drone_vars, guidance_vars, stat_vars, sensor_vars,
                   db_sessions, telemetry_vars, relay_vars, pc>>

\* Reset starting a new session without ending the open one.
ResetWithoutStop(b) ==
    /\ CanCall
    /\ position' = <<0, 0, 30000>>
    /\ orientation' = Zero3
    /\ velocity' = Zero3
    /\ angular_velocity' = Zero3
    /\ linear_acceleration' = Zero3
    /\ control_input' = [thrust |-> BaseThrust, pitch |-> 0, roll |-> 0, yaw |-> 0]
    /\ propeller_thrusts' = [i \in 1..4 |-> InitPropThrust]
    /\ propeller_speeds' = [i \in 1..4 |-> InitPropSpeed]
    /\ flight_time' = 0
    /\ distance_traveled' = 0
    /\ last_position' = <<0, 0, 30000>>
    /\ max_altitude' = 0
    /\ max_speed' = 0
    /\ target_counter' = 0
    /\ sensor_noise' = Calibrated(b)
    /\ db_sessions' = db_sessions + 1
    /\ db_in_progress' = db_in_progress \cup {db_sessions + 1}
    /\ current_session_id' = db_sessions + 1
    /\ Called("reset", <<>>)
    /\ UNCHANGED <<forces, control_mode, target_position, sensor_calibration,
                   telemetry_vars, relay_vars, pc>>

\* reset.  It ends the open session, resets the fields it names, calibrates
\* the sensors and starts a new session.
Reset(b) ==
    /\ CanCall
    /\ position' = <<0, 0, 30000>>
    /\ orientation' = Zero3
    /\ velocity' = Zero3
    /\ angular_velocity' = Zero3
    /\ linear_acceleration' = Zero3
    /\ control_input' = [thrust |-> BaseThrust, pitch |-> 0, roll |-> 0, yaw |-> 0]
    /\ propeller_thrusts' = [i \in 1..4 |-> InitPropThrust]
    /\ propeller_speeds' = [i \in 1..4 |-> InitPropSpeed]
    /\ flight_time' = 0
    /\ distance_traveled' = 0
    /\ last_position' = <<0, 0, 30000>>
    /\ max_altitude' = 0
    /\ max_speed' = 0
    /\ target_counter' = 0
    /\ sensor_noise' = Calibrated(b)
    /\ db_sessions' = db_sessions + 1
    /\ db_in_progress' =
         (db_in_progress \ {current_session_id}) \cup {db_sessions + 1}
    /\ current_session_id' = db_sessions + 1
    /\ Called("reset", <<>>)
    /\ UNCHANGED <<forces, control_mode, target_position, sensor_calibration,
                   telemetry_vars, relay_vars, pc>>

\* A call that assigns no field and returns ret, having drawn draws.
Returned(op, draws, ret) ==
    /\ last_call' = [op |-> op, args |-> <<>>, again |-> (last_call.op = op),
                     draws |-> draws, ret |-> ret]
    /\ calls' = calls + 1
    /\ UNCHANGED <<drone_vars, guidance_vars, stat_vars, sensor_vars,
                   session_vars, telemetry_vars, relay_vars, pc>>

\* GetGyroscopeData letting the bias drift by the noise it draws.
GetGyroscopeDataDrifting(noise) ==
    /\ CanCall
    /\ last_call' = [op |-> "get_gyroscope_data", args |-> <<>>,
                     again |-> (last_call.op = "get_gyroscope_data"),
                     draws |-> <<noise>>, ret |-> get_gyroscope_data(noise)]
    /\ calls' = calls + 1
    /\ sensor_noise' =
         [sensor_noise EXCEPT !.bias_gyro = VAdd(sensor_noise.bias_gyro, noise)]
    /\ UNCHANGED <<drone_vars, guidance_vars, stat_vars, sensor_calibration,
                   session_vars, telemetry_vars, relay_vars, pc>>

\* A call of get_gyroscope_data.
GetGyroscopeData(noise) ==
    /\ CanCall
    /\ Returned("get_gyroscope_data", <<noise>>, get_gyroscope_data(noise))

\* A call of get_accelerometer_data.
GetAccelerometerData(noise) ==
    /\ CanCall
    /\ Returned("get_accelerometer_data", <<noise>>,
                get_accelerometer_data(noise))

\* A call of get_imu_data.
GetImuData(gyro_noise, accel_noise, estimate_noise) ==
    /\ CanCall
    /\ Returned("get_imu_data", <<gyro_noise, accel_noise, estimate_noise>>,
                get_imu_data(gyro_noise, accel_noise, estimate_noise))

\* send_sensor_data up to its wait for the answer: read_sensor_data,
\* create_binary_packet, sendall.  data is the record read.
SendSensorData(data) ==
    /\ channel = <<>>
    /\ response = None
    /\ fw_sensor_data' = data
    /\ channel' = create_binary_packet(data)
    /\ UNCHANGED <<rx_sensor_data, response>>
    /\ UNCHANGED <<drone_vars, guidance_vars, stat_vars, sensor_vars,
                   session_vars, telemetry_vars, pc, last_call, calls>>

\* The answer handle_client sends for what it parsed.
ResponseTo(sensor_data) ==
    IF sensor_data # None
    THEN [kind |-> "ACK", device_id |-> sensor_data.device_id]
    ELSE [kind |-> "ERROR"]

\* One round of handle_client: recv, parse_binary_packet, save_to_database
\* if the packet was accepted, and the answer.
HandleClient ==
    /\ channel # <<>>
    /\ rx_sensor_data' = parse_binary_packet(channel)
    /\ response' = ResponseTo(parse_binary_packet(channel))
    /\ channel' = <<>>
    /\ UNCHANGED fw_sensor_data
    /\ UNCHANGED <<drone_vars, guidance_vars, stat_vars, sensor_vars,
                   session_vars, telemetry_vars, pc, last_call, calls>>

\* The rest of send_sensor_data: the answer is received.
ReceiveResponse ==
    /\ response # None
    /\ response' = None
    /\ UNCHANGED <<fw_sensor_data, channel, rx_sensor_data>>
    /\ UNCHANGED <<drone_vars, guidance_vars, stat_vars, sensor_vars,
                   session_vars, telemetry_vars, pc, last_call, calls>>

\* Every step but the last part of update_physics.
DroneCalls ==
    \/ \E a \in ControlArgs : SetControlInput(a)
    \/ \E w \in GustWinds \cup {Zero3}, t \in Targets : ApplyControl(w, t)
    \/ \E dt \in Dts : Integrate(dt)
    \/ enforce_area_limits
    \/ \E t \in Targets : ToggleControlMode(t)
    \/ \E b \in BiasDraws : CalibrateSensors(b)
    \/ StartDataLogging
    \/ StopDataLogging
    \/ \E b \in BiasDraws : Reset(b)

\* The drone driven at the visualizer's frame interval.
Next ==
    \/ DroneCalls
    \/ BorderDamping(FrameInterval)

Spec == Init /\ [][Next]_vars

\* The drone driven by slower frames of varying length.
NextTelemetry ==
    \/ DroneCalls
    \/ \E el \in Elapsed : BorderDamping(el)

SpecTelemetry == Init /\ [][NextTelemetry]_vars

\* The drone with its sensors read between the calls.
NextSensors ==
    \/ Next
    \/ \E n \in GyroNoises : GetGyroscopeData(n)
    \/ \E n \in AccelNoises : GetAccelerometerData(n)
    \/ \E n \in ImuNoises : GetImuData(n[1], n[2], n[3])

SpecSensors == Init /\ [][NextSensors]_vars

\* The firmware emulator and the receiver, one packet at a time.
NextRelay ==
    \/ \E data \in SensorRecords : SendSensorData(data)
    \/ HandleClient
    \/ ReceiveResponse

SpecRelay == Init /\ [][NextRelay]_vars

\* ------------------------------------------------------------------ claims

InLimits(p) == \A i \in 1..3 : LimMin(i) <= p[i] /\ p[i] <= LimMax(i)

\* A step that is the call op (for update_physics: its first part).
IsCall(op) == calls' = calls + 1 /\ last_call'.op = op

\* C1: whenever update_physics is not between its integration and its
\* enforcement, so after every update_physics call, every position
\* coordinate lies inside area_limits.
C1_PositionInArea == pc # "integrated" => InLimits(position)

\* update_physics has returned and its integration had left the area
\* (last_position keeps the position before the clamp).
C1_Witness ==
    /\ pc = "idle"
    /\ last_call.op = "update_physics"
    /\ ~InLimits(last_position)
    /\ forces.wind # Zero3

\* C2: in every state, so after every update_physics call, each of roll,
\* pitch and yaw is at most pi/4 in magnitude.
C2_OrientationBounded == \A i \in 1..3 : Abs(orientation[i]) <= max_angle

\* update_physics has returned with roll and pitch clipped to the bound.
C2_Witness ==
    /\ pc = "idle"
    /\ last_call.op = "update_physics"
    /\ Abs(orientation[1]) = max_angle
    /\ Abs(orientation[2]) = max_angle

\* Commands handed to the mixer beyond any the guidance produces.
MixerProbes ==
    {-1000000, 0, 50000, 200000, 1000000}
        \X {-100000, 0, 100000} \X {-100000, 0, 100000} \X {-100000, 0, 100000}

ThrustInRange(t) == MinPropThrust <= t /\ t <= propeller_max_thrust

\* C3: each thrust calculate_propeller_thrusts returns lies in
\* [0.1, max_thrust], for every command handed to it, and propeller_thrusts
\* lies in that range in every state.
C3_ThrustsInRange ==
    /\ \A i \in 1..4 : ThrustInRange(propeller_thrusts[i])
    /\ calls = 0 =>
         \A c \in MixerProbes : \A i \in 1..4 :
            ThrustInRange(calculate_propeller_thrusts(c[1], c[2], c[3], c[4])[i])

\* The mixer has acted on the largest valid command.
C3_Witness ==
    /\ last_call.op = "set_control_input"
    /\ control_input.thrust = ThrustMax
    /\ propeller_thrusts[3] > 50000

\* Everything reset is said to leave identical: the drone, guidance and
\* statistics fields and the sensor model.
ResetState == <<drone_vars, guidance_vars, stat_vars, sensor_vars>>

\* The same without the sensor biases.
ResetStateButBiases ==
    <<drone_vars, guidance_vars, stat_vars, sensor_calibration,
      sensor_noise.gyro, sensor_noise.accel>>

\* A reset made right after a reset.
SecondReset == last_call.op = "reset" /\ IsCall("reset")

\* C4 as claimed: a reset right after a reset leaves every field of the
\* drone, guidance and sensor state as the first reset left it.
C4_ResetIdempotent == [][SecondReset => ResetState' = ResetState]_vars

\* C4 as amended: a reset right after a reset leaves every field but the
\* sensor biases as the first reset left it, with position (0,0,3),
\* velocity 0, thrust 9.81 and propeller thrusts 2.4525 each.
C4_ResetIdempotentButBiases ==
    [][SecondReset =>
        /\ ResetStateButBiases' = ResetStateButBiases
        /\ position' = <<0, 0, 30000>>
        /\ velocity' = Zero3
        /\ control_input'.thrust = 98100
        /\ propeller_thrusts' = <<24525, 24525, 24525, 24525>>]_vars

\* Two resets in a row have been made, the second drawing other biases.
C4_Witness ==
    /\ last_call.op = "reset"
    /\ last_call.again
    /\ sensor_noise.bias_gyro # Zero3

\* C5: after reset, position is (0,0,3), velocity and orientation are zero
\* and the thrust and wind the next update_physics uses are 9.81 and zero.
C5_ResetRestoresThrust ==
    last_call.op = "reset" =>
        /\ position = <<0, 0, 30000>>
        /\ velocity = Zero3
        /\ orientation = Zero3
        /\ forces.thrust = 98100
        /\ forces.wind = Zero3

\* C6: after reset, the control mode is MANUAL and the waypoint counter 0.
C6_ResetRestoresGuidance ==
    last_call.op = "reset" => control_mode = "MANUAL" /\ target_counter = 0

\* C7: enforce_area_limits pushes inward: on an axis whose clamped position
\* is within 1.0 of the max face the velocity falls by 3.0 times the depth
\* into the margin, and within 1.0 of the min face it rises by that.
C7_RepulsionInward ==
    [][pc = "integrated" /\ pc' = "enforced" =>
        \A i \in 1..3 :
            /\ position'[i] > LimMax(i) - border_margin =>
                 velocity'[i] = velocity[i]
                     - 3 * (position'[i] - (LimMax(i) - border_margin))
            /\ position'[i] < LimMin(i) + border_margin =>
                 velocity'[i] = velocity[i]
                     + 3 * ((LimMin(i) + border_margin) - position'[i])]_vars

\* The box generate_random_target draws from.
InTargetBox(t) ==
    /\ -60000 <= t[1] /\ t[1] <= 60000
    /\ -60000 <= t[2] /\ t[2] <= 60000
    /\ 20000 <= t[3] /\ t[3] <= 100000

\* C8: an apply_control in AUTO mode with the target within 1.0 draws a new
\* target and adds exactly 1 to the counter; with the target at 1.0 or more
\* it leaves the target and the counter unchanged.
C8_WaypointOncePerCrossing ==
    [][IsCall("apply_control") /\ control_mode = "AUTO" =>
        IF Norm(VSub(target_position, position)) < 10000
        THEN /\ target_counter' = target_counter + 1
             /\ InTargetBox(target_position')
        ELSE /\ target_counter' = target_counter
             /\ target_position' = target_position]_vars

\* An AUTO apply_control has crossed a waypoint and drawn another target,
\* and a later one, away from its target, has crossed none.
C8_Witness ==
    /\ last_call.op = "apply_control"
    /\ last_call.again
    /\ control_mode = "AUTO"
    /\ target_counter = 1
    /\ target_position # <<1000, 0, 30000>>

\* x clipped to the nearest bound of [lo, hi] is y.
NearestIn(x, lo, hi, y) ==
    /\ lo <= y /\ y <= hi
    /\ x < lo => y = lo
    /\ x > hi => y = hi
    /\ (lo <= x /\ x <= hi) => y = x

\* C9: control_input is in range in every state; right after
\* set_control_input each value is the argument's nearest value in range.
C9_InputsClipped ==
    /\ 50000 <= control_input.thrust /\ control_input.thrust <= 200000
    /\ -5000 <= control_input.pitch /\ control_input.pitch <= 5000
    /\ -5000 <= control_input.roll /\ control_input.roll <= 5000
    /\ -3000 <= control_input.yaw /\ control_input.yaw <= 3000
    /\ last_call.op = "set_control_input" =>
         /\ NearestIn(98100 + 2 * last_call.args[1], 50000, 200000,
                      control_input.thrust)
         /\ NearestIn(last_call.args[2], -5000, 5000, control_input.pitch)
         /\ NearestIn(last_call.args[3], -5000, 5000, control_input.roll)
         /\ NearestIn(last_call.args[4], -3000, 3000, control_input.yaw)

\* set_control_input has been made with every argument above its range.
C9_Witness ==
    /\ last_call.op = "set_control_input"
    /\ last_call.args[1] > 100000 - 1
    /\ last_call.args[4] > 3000
    /\ control_input.thrust = 200000
    /\ control_input.yaw = 3000

\* The command apply_control handed to the mixer: thrust, roll, pitch, yaw.
Handed == last_call.args

\* C10 as claimed: the command apply_control hands to the mixer is a valid
\* ControlInput in both modes.
C10_CommandValid ==
    last_call.op = "apply_control" =>
        /\ 50000 <= Handed[1] /\ Handed[1] <= 200000
        /\ Abs(Handed[2]) <= 5000
        /\ Abs(Handed[3]) <= 5000
        /\ Abs(Handed[4]) <= 3000

\* C10 as amended: in MANUAL mode the command is a valid ControlInput; in
\* AUTO mode its thrust is in [5.0, 20.0], its yaw is 0 and its roll and
\* pitch are in [-0.8, 0.8].
C10_CommandValidManual ==
    last_call.op = "apply_control" =>
        /\ 50000 <= Handed[1] /\ Handed[1] <= 200000
        /\ control_mode = "MANUAL" =>
             /\ Abs(Handed[2]) <= 5000
             /\ Abs(Handed[3]) <= 5000
             /\ Abs(Handed[4]) <= 3000
        /\ control_mode = "AUTO" =>
             /\ Abs(Handed[2]) <= 8000
             /\ Abs(Handed[3]) <= 8000
             /\ Handed[4] = 0

\* An AUTO apply_control has handed the mixer a pitch beyond 0.5.
C10_Witness ==
    /\ last_call.op = "apply_control"
    /\ control_mode = "AUTO"
    /\ Abs(Handed[3]) > 5000

\* The trim input: control_input after set_control_input(0, 0, 0, 0).
Trim == [thrust |-> 98100, pitch |-> 0, roll |-> 0, yaw |-> 0]

\* The drone stands still and level at its start position.
AtStart ==
    /\ position = <<0, 0, 30000>>
    /\ velocity = Zero3
    /\ orientation = Zero3

\* C11: hover at trim is a fixed point of the visualizer's tick.
\* set_control_input(0, 0, 0, 0) stores the trim input; a MANUAL
\* apply_control on it that draws no gust leaves thrust 9.81 and no
\* angular velocity; update_physics from the start position then leaves
\* the velocity zero and the position (0, 0, 3) through its integration,
\* its enforcement (no repulsion) and its border damping.
C11_HoverFixedPoint ==
    [][/\ IsCall("set_control_input") /\ last_call'.args = <<0, 0, 0, 0>> =>
            control_input' = Trim
       /\ (/\ IsCall("apply_control")
           /\ control_mode = "MANUAL"
           /\ control_input = Trim
           /\ forces'.wind = Zero3) =>
            forces'.thrust = 98100 /\ angular_velocity' = Zero3
       /\ (/\ IsCall("update_physics")
           /\ AtStart
           /\ angular_velocity = Zero3
           /\ forces.thrust = 98100
           /\ forces.wind = Zero3) =>
            AtStart' /\ linear_acceleration' = Zero3
       /\ (pc \in {"integrated", "enforced"} /\ AtStart) => AtStart']_vars

\* The tick set_control_input(0, 0, 0, 0); apply_control (no gust);
\* update_physics(0.05) has been made from the start and has returned.
C11_Witness ==
    /\ pc = "idle"
    /\ calls = 3
    /\ last_call.op = "update_physics"
    /\ last_call.args = <<500>>
    /\ flight_time = 500
    /\ control_mode = "MANUAL"
    /\ control_input = Trim
    /\ propeller_thrusts = <<23299, 23789, 23544, 23054>>
    /\ forces.wind = Zero3
    /\ AtStart

\* C12: in every state, right after construction and right after reset
\* included, each propeller speed is 500 + 1500 * sqrt(thrust / max_thrust)
\* of that propeller's thrust.
C12_SpeedFromThrust ==
    \A i \in 1..4 :
        propeller_speeds[i] =
            500 * Scale
                + Mul(1500 * Scale, Sqrt(Div(propeller_thrusts[i], 60000)))

\* C13: toggle_control_mode alternates the mode.  Out of MANUAL it enters
\* AUTO and the target it leaves is one generate_random_target draws; out
\* of AUTO it enters MANUAL and leaves the target unchanged; a toggle right
\* after a toggle made from the initial MANUAL mode restores MANUAL.
C13_ToggleAlternates ==
    [][IsCall("toggle_control_mode") =>
        /\ control_mode \in {"MANUAL", "AUTO"}
        /\ control_mode = "MANUAL" =>
             control_mode' = "AUTO" /\ InTargetBox(target_position')
        /\ control_mode = "AUTO" =>
             control_mode' = "MANUAL" /\ target_position' = target_position
        /\ (last_call.op = "toggle_control_mode" /\ calls = 1) =>
             control_mode' = "MANUAL"]_vars

\* Two toggles in a row have been made from the initial mode.
C13_Witness ==
    /\ last_call.op = "toggle_control_mode"
    /\ last_call.again
    /\ calls = 2
    /\ control_mode = "MANUAL"

\* C14: a row is added to drone_positions only by the last part of
\* update_physics, only while a logging session is active, under that
\* session, and at least save_interval = 0.2 s of wall clock after the row
\* before it.
C14_TelemetryTimeGated ==
    [][db_positions' # db_positions =>
        /\ pc = "enforced" /\ pc' = "idle"
        /\ current_session_id # 0
        /\ db_positions' =
             Append(db_positions, [session_id |-> current_session_id,
                                   written_at |-> clock'])
        /\ db_positions # <<>> =>
             clock' - db_positions[Len(db_positions)].written_at >= 2000]_vars

\* Three update_physics(0.05) calls have been made in a session: two wrote
\* a row and one, too early after the row before, wrote none.
C14_Witness ==
    /\ pc = "idle"
    /\ calls = 4
    /\ flight_time = 1500
    /\ current_session_id # 0
    /\ Len(db_positions) = 2
    /\ db_positions[2].written_at = clock

\* The calls said to leave the sensor model alone.
NonCalibratingCalls ==
    {"set_control_input", "apply_control", "update_physics",
     "toggle_control_mode", "get_gyroscope_data", "get_accelerometer_data",
     "get_imu_data"}

\* C15: the scale factors and the noise standard deviations never change;
\* the biases change only in a calibrate_sensors or a reset step;
\* set_control_input, apply_control, update_physics (each of its parts),
\* toggle_control_mode and the three sensor reads leave the whole sensor
\* model unchanged.
C15_SensorStateFrame ==
    [][/\ sensor_calibration' = sensor_calibration
       /\ sensor_noise'.gyro = sensor_noise.gyro
       /\ sensor_noise'.accel = sensor_noise.accel
       /\ sensor_noise' # sensor_noise =>
            IsCall("calibrate_sensors") \/ IsCall("reset")
       /\ ((\E op \in NonCalibratingCalls : IsCall(op)) \/ pc # "idle") =>
            UNCHANGED sensor_vars]_vars

\* A calibration has redrawn the biases, apply_control has set the drone
\* turning, and get_imu_data has then read the sensors.
C15_Witness ==
    /\ last_call.op = "get_imu_data"
    /\ sensor_noise.bias_gyro = <<10, -10, 5>>
    /\ sensor_noise.gyro = 100
    /\ angular_velocity # Zero3

\* What the roll command adds to propeller i before efficiency and
\* clipping, for the command c = (thrust, roll, pitch, yaw).
RollShare(c, i) ==
    RawThrusts(c[1], c[2], c[3], c[4])[i] - RawThrusts(c[1], 0, c[3], c[4])[i]

\* The propeller thrusts of the command c, the roll correction entering
\* propeller i with the sign rollSign[i].
MixedWith(rollSign, c) ==
    [i \in 1..4 |->
        Clip(Mul(RoundDiv(c[1], 4)
                    + rollSign[i] * Mul(c[2], 5000)
                    + <<1, -1, 1, -1>>[i] * Mul(c[3], 5000)
                    + <<-1, -1, 1, 1>>[i] * Mul(c[4], 3000),
                 <<9500, 9700, 9600, 9400>>[i]),
             1000, 60000)]

\* The roll correction of every probe command enters the propellers with
\* the signs rollSign, and so do the thrusts apply_control has just left.
RollEnters(rollSign) ==
    /\ calls = 0 =>
         \A c \in MixerProbes : \A i \in 1..4 :
            RollShare(c, i) = rollSign[i] * Mul(c[2], 5000)
    /\ last_call.op = "apply_control" =>
         propeller_thrusts = MixedWith(rollSign, Handed)

C17_GyroscopeReading ==
    [][IsCall("get_gyroscope_data") =>
        LET noise == last_call'.draws[1]
            rates == last_call'.ret
        IN  /\ \A i \in 1..3 :
                 rates[i] =
                     Mul(angular_velocity[i] + sensor_noise.bias_gyro[i],
                         sensor_calibration.gyro_scale[i]) + noise[i]
            /\ (angular_velocity = Zero3 /\ sensor_noise.bias_gyro = Zero3) =>
                 rates = noise
            /\ (last_call.op = "get_gyroscope_data"
                    /\ last_call.draws[1] = noise) =>
                 rates = last_call.ret]_vars

\* After a calibration that drew no bias, the gyroscope of the drone at
\* rest has been read twice and has returned the nonzero noise.
C17_Witness ==
    /\ last_call.op = "get_gyroscope_data"
    /\ last_call.again
    /\ angular_velocity = Zero3
    /\ sensor_noise.bias_gyro = Zero3
    /\ last_call.ret = <<100, -50, 30>>

\* How far p is inside the 1.0 margin of a face of axis i; 0 outside it.
MarginDepth(p, i) ==
    IF p > LimMax(i) - 10000 THEN p - (LimMax(i) - 10000)
    ELSE IF p < LimMin(i) + 10000 THEN (LimMin(i) + 10000) - p
    ELSE 0

\* p is within 0.5 of a face of axis i.
NearFace(p, i) == p >= LimMax(i) - 5000 \/ p <= LimMin(i) + 5000

\* C18: update_physics composes integration, hard clamp, repulsion and
\* damping in this order.  The step after the integration clamps the
\* position and corrects each velocity by 3.0 times the depth of the
\* clamped position in the 1.0 margin; the step after that leaves the
\* position and multiplies by 0.7 the corrected velocity of each axis whose
\* clamped position is within 0.5 of a face, and only of those.
C18_BoundaryComposition ==
    [][/\ IsCall("update_physics") => pc' = "integrated"
       /\ pc = "integrated" =>
            /\ pc' = "enforced"
            /\ \A i \in 1..3 :
                 /\ position'[i] = Clip(position[i], LimMin(i), LimMax(i))
                 /\ Abs(velocity'[i] - velocity[i])
                        = 3 * MarginDepth(position'[i], i)
       /\ pc = "enforced" =>
            /\ pc' = "idle"
            /\ position' = position
            /\ \A i \in 1..3 :
                 velocity'[i] = IF NearFace(position[i], i)
                                THEN Mul(velocity[i], 7000)
                                ELSE velocity[i]]_vars

\* update_physics has returned after its integration had taken the drone
\* below the floor: the clamp, the repulsion and the damping have all acted
\* on the z axis.
C18_Witness ==
    /\ pc = "idle"
    /\ last_call.op = "update_physics"
    /\ last_position[3] < 5000
    /\ position[3] = 5000
    /\ velocity[3] # 0

\* The vector from the drone to the target an apply_control step leaves,
\* so after a possible regeneration.
ToTarget == VSub(target_position', position)

\* An apply_control step made in AUTO mode.
AutoApply == IsCall("apply_control") /\ control_mode = "AUTO"

\* C19: after an apply_control in AUTO mode, forces.thrust is
\* clip(9.81 + (target.z - position.z) * 0.5, 5.0, 20.0), target being the
\* target after the possible regeneration, and the command handed to the
\* mixer has that thrust, roll 0.8 * direction.y, pitch -0.8 * direction.x
\* and yaw 0.
C19_AutoCommand ==
    [][AutoApply =>
        LET to        == ToTarget
            direction == Direction(to, Norm(to))
        IN  /\ forces'.thrust =
                 Clip(98100 + Mul(target_position'[3] - position[3], 5000),
                      50000, 200000)
            /\ last_call'.args =
                 <<forces'.thrust, Mul(direction[2], 8000),
                   -Mul(direction[1], 8000), 0>>]_vars

\* An AUTO apply_control has crossed a waypoint, drawn a target at another
\* height and handed the mixer the thrust for the new target.
C19_Witness ==
    /\ last_call.op = "apply_control"
    /\ control_mode = "AUTO"
    /\ target_counter = 1
    /\ target_position[3] = 100000
    /\ forces.thrust = 133100
    /\ Handed[2] > 0

\* The roll and pitch commands of the unit vector to the target.  The
\* length of the direction is 1 up to the rounding of the distance, which
\* the integer square root takes less than one step too short.
TowardsTarget(to, d) ==
    /\ last_call'.args[2] = Mul(Div(to[2], d), 8000)
    /\ last_call'.args[3] = -Mul(Div(to[1], d), 8000)
    /\ Abs(Norm(Direction(to, d)) - Scale) <= Scale \div d + 2

\* No roll and no pitch command.
NoTilt == last_call'.args[2] = 0 /\ last_call'.args[3] = 0

\* C20 as claimed: in an AUTO apply_control, when the distance to the
\* target (after the possible regeneration) is below 0.1 the roll and
\* pitch commands are 0; otherwise they are those of the unit vector to
\* the target.
C20_DirectionGuard ==
    [][AutoApply =>
        LET to == ToTarget
            d  == Norm(to)
        IN  IF d < 1000 THEN NoTilt ELSE TowardsTarget(to, d)]_vars

\* C20 as amended: in an AUTO apply_control, when the distance to the
\* target (after the possible regeneration) is at most 0.1 the roll and
\* pitch commands are 0; when it is more than 0.1 they are those of the
\* unit vector to the target.
C20_DirectionGuardAtMost ==
    [][AutoApply =>
        LET to == ToTarget
            d  == Norm(to)
        IN  IF d <= 1000 THEN NoTilt ELSE TowardsTarget(to, d)]_vars

\* An AUTO apply_control has crossed a waypoint and drawn a target exactly
\* 0.1 away, and has commanded no tilt.
C20_Witness ==
    /\ last_call.op = "apply_control"
    /\ control_mode = "AUTO"
    /\ target_counter = 1
    /\ Norm(VSub(target_position, position)) = 1000
    /\ Handed[2] = 0
    /\ Handed[3] = 0

\* An apply_control step made in MANUAL mode.
ManualApply == IsCall("apply_control") /\ control_mode = "MANUAL"

\* C21: an apply_control in MANUAL mode passes the stored control input
\* through.  forces.thrust becomes control_input.thrust, the mixer is handed
\* control_input's thrust, roll, pitch and yaw, propeller_thrusts becomes
\* the mixer's output for these, the angular velocity 0.8 times (roll,
\* pitch, yaw), and control_input, the mode, the target and the waypoint
\* counter are left unchanged.
C21_ManualPassThrough ==
    [][ManualApply =>
        /\ forces'.thrust = control_input.thrust
        /\ last_call'.args = <<control_input.thrust, control_input.roll,
                               control_input.pitch, control_input.yaw>>
        /\ propeller_thrusts' =
             MixedWith(<<-1, 1, 1, -1>>,
                       <<control_input.thrust, control_input.roll,
                         control_input.pitch, control_input.yaw>>)
        /\ angular_velocity' =
             <<Mul(control_input.roll, 8000), Mul(control_input.pitch, 8000),
               Mul(control_input.yaw, 8000)>>
        /\ UNCHANGED <<control_input, control_mode, target_position,
                       target_counter>>]_vars

\* A MANUAL apply_control has passed on an input whose roll, pitch and yaw
\* all differ.
C21_Witness ==
    /\ last_call.op = "apply_control"
    /\ control_mode = "MANUAL"
    /\ control_input = [thrust |-> 118100, pitch |-> 2000, roll |-> -1000,
                        yaw |-> 1000]
    /\ Handed = <<118100, -1000, 2000, 1000>>
    /\ forces.thrust = 118100

\* The corners of the box x, y in [-6, 6], z in [2, 10].
TargetBoxCorners == {-60000, 60000} \X {-60000, 60000} \X {20000, 100000}

\* C22: in every state, so after construction, after any toggle into AUTO
\* and after any waypoint regeneration, the target lies in the box
\* x, y in [-6, 6], z in [2, 10], and so inside area_limits, which holds
\* the whole box.
C22_TargetInBox ==
    /\ InTargetBox(target_position)
    /\ InLimits(target_position)
    /\ calls = 0 => \A c \in TargetBoxCorners : InLimits(c)

\* After a toggle into AUTO, an apply_control has crossed a waypoint and
\* drawn a target at a corner of the box.
C22_Witness ==
    /\ last_call.op = "apply_control"
    /\ control_mode = "AUTO"
    /\ target_counter = 1
    /\ target_position = <<-60000, 60000, 100000>>

\* w is zero or a gust of the range [-0.3, 0.3] x [-0.3, 0.3] x [-0.1, 0.1].
ZeroOrGust(w) == Abs(w[1]) <= 3000 /\ Abs(w[2]) <= 3000 /\ Abs(w[3]) <= 1000

\* The acceleration update_physics computes without wind.
CalmAcceleration ==
    TotalForce(orientation', velocity, [forces EXCEPT !.wind = Zero3])

\* C23: wind is a gust of one tick.  Every apply_control leaves in
\* forces.wind what its own draw decided, zero or a vector in
\* [-0.3, 0.3] x [-0.3, 0.3] x [-0.1, 0.1], whatever the wind was before;
\* no other step changes forces.wind; and the update_physics that follows
\* an apply_control adds to its acceleration the wind that apply_control
\* left.
C23_WindPerTick ==
    [][/\ IsCall("apply_control") =>
            /\ forces'.wind = last_call'.draws[1]
            /\ ZeroOrGust(forces'.wind)
       /\ forces'.wind # forces.wind => IsCall("apply_control")
       /\ (IsCall("update_physics") /\ last_call.op = "apply_control") =>
            linear_acceleration' = VAdd(CalmAcceleration, forces.wind)]_vars

\* A tick at trim has flown in a gust, which is still in the acceleration,
\* and the apply_control of the next tick, drawing none, has left no wind.
C23_Witness ==
    /\ last_call.op = "apply_control"
    /\ calls = 3
    /\ flight_time = 500
    /\ linear_acceleration = <<3000, -3000, 1000>>
    /\ forces.wind = Zero3

\* C24: each update_physics adds dt to flight_time and adds to
\* distance_traveled the length of the drone's displacement over the tick:
\* the distance from the position it held when the call began (the end of
\* the tick before) to the position update_physics records, which is the
\* position it holds when the call ends.
C24_DistanceOverTick ==
    [][/\ IsCall("update_physics") =>
            /\ flight_time' = flight_time + last_call'.args[1]
            /\ distance_traveled' =
                 distance_traveled + Norm(VSub(last_position', position))
       /\ pc = "integrated" => position' = last_position]_vars

\* C25: the yaw of the orientation estimate of every get_imu_data is the
\* true yaw, orientation[2] of the program, exactly, whatever noises the
\* read draws and whatever the biases and the gyroscope rates are.
C25_YawPassedThrough ==
    [][IsCall("get_imu_data") =>
        last_call'.ret.orientation_estimate.yaw_estimated = orientation[3]]_vars

\* After a tick that has yawed the drone, get_imu_data has drawn noise for
\* each of its readings and has returned the true yaw.
C25_Witness ==
    /\ last_call.op = "get_imu_data"
    /\ orientation[3] # 0
    /\ last_call.draws[3] # Zero3
    /\ last_call.ret.gyroscope[3] # 0
    /\ last_call.ret.orientation_estimate.yaw_estimated = orientation[3]

\* C26: max_altitude never exceeds z_max, and once update_physics has
\* returned it is at least the altitude the drone holds.
C26_MaxAltitudeHeld ==
    /\ max_altitude <= 150000
    /\ (pc = "idle" /\ last_call.op = "update_physics") =>
         max_altitude >= position[3]

\* A logging session is open.
SessionOpen == current_session_id # 0

\* C27: a drone has at most one open logging session.  In every state the
\* sessions in progress are the drone's current session alone, or none if it
\* has none.  A session is started only when none is open and ended only
\* when one is: start_data_logging with a session open and
\* stop_data_logging with none change nothing; reset ends the open session
\* and starts a new one, so a session is open after every reset.
C27_OneOpenSession ==
    [][/\ db_in_progress = (IF SessionOpen THEN {current_session_id} ELSE {})
       /\ db_in_progress' =
            (IF SessionOpen' THEN {current_session_id'} ELSE {})
       /\ IsCall("start_data_logging") =>
            IF SessionOpen THEN UNCHANGED session_vars
            ELSE SessionOpen' /\ current_session_id' \notin 0..db_sessions
       /\ IsCall("stop_data_logging") =>
            ~SessionOpen' /\ (~SessionOpen => UNCHANGED session_vars)
       /\ IsCall("reset") =>
            /\ SessionOpen'
            /\ current_session_id' \notin 0..db_sessions
            /\ current_session_id \notin db_in_progress'
       /\ ~(\E op \in {"start_data_logging", "stop_data_logging", "reset"} :
                IsCall(op)) =>
            UNCHANGED session_vars]_vars

\* Four calls have started two sessions and ended both, the second by
\* stop_data_logging (as in start, start, reset, stop).
C27_Witness ==
    /\ last_call.op = "stop_data_logging"
    /\ calls = 4
    /\ db_sessions = 2
    /\ ~SessionOpen
    /\ db_in_progress = {}

\* The calls said to leave the control mode alone.
NonTogglingCalls ==
    {"set_control_input", "apply_control", "update_physics",
     "calibrate_sensors", "get_gyroscope_data", "get_accelerometer_data",
     "get_imu_data"}

\* C28: the control mode changes only in a toggle_control_mode step;
\* set_control_input, apply_control, update_physics (each of its parts),
\* calibrate_sensors and the three sensor reads leave it unchanged; and an
\* apply_control outside AUTO mode leaves the target and the waypoint
\* counter unchanged.
C28_ModeFrame ==
    [][/\ control_mode' # control_mode => IsCall("toggle_control_mode")
       /\ ((\E op \in NonTogglingCalls : IsCall(op)) \/ pc # "idle") =>
            control_mode' = control_mode
       /\ (IsCall("apply_control") /\ control_mode # "AUTO") =>
            UNCHANGED <<target_position, target_counter>>]_vars

\* In AUTO mode a calibration and a sensor read have been made, the mode
\* staying AUTO.
C28_Witness ==
    /\ last_call.op = "get_imu_data"
    /\ control_mode = "AUTO"
    /\ sensor_noise.bias_gyro = <<10, -10, 5>>

\* C29: in every get_imu_data sample the roll and pitch estimates and the
\* confidence are those of the accelerometer reading (ax, ay, az) the sample
\* reports: roll atan2(ay, az), pitch atan2(-ax, sqrt(ay^2 + az^2)),
\* confidence 0.8 if the reading is between 8 and 12 long, else 0.3.
C29_EstimateFromReportedReading ==
    [][IsCall("get_imu_data") =>
        LET a   == last_call'.ret.accelerometer
            est == last_call'.ret.orientation_estimate
        IN  /\ est.roll_estimated = Atan2(a[2], a[3])
            /\ est.pitch_estimated = Atan2(-a[1], Norm(<<0, a[2], a[3]>>))
            /\ est.confidence =
                 (IF Norm(a) > 80000 /\ Norm(a) < 120000 THEN 8000
                  ELSE 3000)]_vars

\* Byte strings to compare the two calculate_crc8 on: the empty one, every
\* single byte, and pairs of bytes with the top bit set and clear.
CrcProbes ==
    {<<>>} \cup {<<b>> : b \in 0..255}
           \cup {<<a, b>> : a, b \in {0, 1, 127, 128, 255}}

\* A step in which the receiver handles the packet the firmware sent.
Handles == channel # <<>> /\ channel' = <<>>

\* C30: the telemetry relay round trip.  The firmware's and the receiver's
\* calculate_crc8 agree on every probe string and on the body of every
\* packet sent.  Every packet create_binary_packet builds from a
\* read_sensor_data record passes the receiver's length, header and
\* checksum tests, so parse_binary_packet returns a record and the answer
\* is an ACK; and the device_id and the cpu_usage parsed are the record's,
\* the pressure parsed is the whole number of the record's pressure.
C30_RelayRoundTrip ==
    [][/\ (fw_sensor_data = None /\ fw_sensor_data' # None) =>
            \A data \in CrcProbes :
                firmware_calculate_crc8(data) = receiver_calculate_crc8(data)
       /\ fw_sensor_data' # fw_sensor_data =>
            channel' = create_binary_packet(fw_sensor_data')
       /\ Handles =>
            /\ Len(channel) = 65
            /\ SubSeq(channel, 1, 4) = <<170, 187, 204, 221>>
            /\ firmware_calculate_crc8(SubSeq(channel, 1, 64)) = channel[65]
            /\ receiver_calculate_crc8(SubSeq(channel, 1, 64)) = channel[65]
            /\ rx_sensor_data' # None
            /\ response'.kind = "ACK"
            /\ rx_sensor_data'.device_id = fw_sensor_data.device_id
            /\ rx_sensor_data'.cpu_usage = fw_sensor_data.cpu_usage
            /\ rx_sensor_data'.pressure = fw_sensor_data.pressure \div 100]_vars

\* The receiver has accepted and answered the packet of a record whose
\* pressure 1013.25 is no whole number and whose timestamp is the short one.
C30_Witness ==
    /\ response # None
    /\ response.kind = "ACK"
    /\ fw_sensor_data # None
    /\ fw_sensor_data.pressure = 101325
    /\ Len(fw_sensor_data.timestamp) = 19
    /\ rx_sensor_data # None
    /\ rx_sensor_data.pressure = 1013
    /\ rx_sensor_data.cpu_usage = 50
    /\ rx_sensor_data.timestamp = fw_sensor_data.timestamp

=============================================================================
